---- MODULE Spec2Model ----
(***************************************************************************)
(* Model of the multi-agent analyst: CoordinatorAgent (intent routing and  *)
(* workflow assembly), DataAgent (load and structured queries) and         *)
(* ConversationalAgent (casual / business chat with model fallback).       *)
(***************************************************************************)
EXTENDS Integers, Sequences, FiniteSets, TLC

VARIABLES
    data_loaded,           \* CoordinatorAgent.data_loaded
    df,                    \* DataAgent.df
    processed_data,        \* DataAgent.processed_data
    conversation_history,  \* ConversationalAgent.conversation_history
    user_input,            \* the text of the last request
    result,                \* what the last request returned (or raised)
    query_result,          \* what DataAgent.query_data returned to the last request
    calls,                 \* the agent operations the last request invoked, in order
    attempts,              \* the model calls of the last request and their answers
    sent,                  \* the messages the last request sent to the model
    failed_in_no_data      \* whether a load has failed while data_loaded was false

vars == <<data_loaded, df, processed_data, conversation_history, user_input,
          result, query_result, calls, attempts, sent, failed_in_no_data>>

(***************************************************************************)
(* Bounds of the model.                                                    *)
(***************************************************************************)
MaxHistory == 2

MaxBridgeHistory == 6

MaxPhrases == 2

(***************************************************************************)
(* Python values.                                                          *)
(***************************************************************************)
\* None where a string is expected (dict.get of a missing key)
None == "<None>"

\* None where a year is expected: an optional year is <<>> or <<y>>
NoYear == <<>>

(***************************************************************************)
(* Strings: str.lower, the `in` substring test, character classes.         *)
(***************************************************************************)
UpperToLower ==
    [c \in {"A","B","C","D","E","F","G","H","I","J","K","L","M",
            "N","O","P","Q","R","S","T","U","V","W","X","Y","Z"} |->
       CASE c = "A" -> "a" [] c = "B" -> "b" [] c = "C" -> "c" [] c = "D" -> "d"
         [] c = "E" -> "e" [] c = "F" -> "f" [] c = "G" -> "g" [] c = "H" -> "h"
         [] c = "I" -> "i" [] c = "J" -> "j" [] c = "K" -> "k" [] c = "L" -> "l"
         [] c = "M" -> "m" [] c = "N" -> "n" [] c = "O" -> "o" [] c = "P" -> "p"
         [] c = "Q" -> "q" [] c = "R" -> "r" [] c = "S" -> "s" [] c = "T" -> "t"
         [] c = "U" -> "u" [] c = "V" -> "v" [] c = "W" -> "w" [] c = "X" -> "x"
         [] c = "Y" -> "y" [] c = "Z" -> "z"]

CharAt(s, i) == SubSeq(s, i, i)

LowerChar(c) == IF c \in DOMAIN UpperToLower THEN UpperToLower[c] ELSE c

RECURSIVE LowerFrom(_, _)
LowerFrom(s, i) ==
    IF i > Len(s) THEN "" ELSE LowerChar(CharAt(s, i)) \o LowerFrom(s, i + 1)

\* str.lower()
Lower(s) == LowerFrom(s, 1)

\* keyword in text
Contains(text, keyword) ==
    \E i \in 1..(Len(text) - Len(keyword) + 1) :
        SubSeq(text, i, i + Len(keyword) - 1) = keyword

\* any(keyword in text for keyword in keywords)
ContainsAny(text, keywords) == \E k \in keywords : Contains(text, k)

Digits == {"0","1","2","3","4","5","6","7","8","9"}

LowerLetters == {UpperToLower[c] : c \in DOMAIN UpperToLower}

\* the regex class \w
IsWordChar(c) == c \in Digits \cup LowerLetters \cup DOMAIN UpperToLower \cup {"_"}

\* the regex assertion \b at the gap before position i (1..Len(s)+1)
WordBoundary(s, i) ==
    LET before == i > 1 /\ IsWordChar(CharAt(s, i - 1))
        after  == i <= Len(s) /\ IsWordChar(CharAt(s, i))
    IN  before # after

DigitVal(c) ==
    CASE c = "0" -> 0 [] c = "1" -> 1 [] c = "2" -> 2 [] c = "3" -> 3
      [] c = "4" -> 4 [] c = "5" -> 5 [] c = "6" -> 6 [] c = "7" -> 7
      [] c = "8" -> 8 [] c = "9" -> 9

RECURSIVE ParseIntUpTo(_, _)
ParseIntUpTo(s, n) ==
    IF n = 0 THEN 0 ELSE 10 * ParseIntUpTo(s, n - 1) + DigitVal(CharAt(s, n))

\* int(str) of a string of digits
ParseInt(s) == ParseIntUpTo(s, Len(s))

(***************************************************************************)
(* CoordinatorAgent._parse_intent                                          *)
(***************************************************************************)
InitializationKeywords == {"load data", "prepare data", "initialize"}

ProfitMarginKeywords == {"profit margin"}

RevenueTrendKeywords == {"revenue trend", "sales trend", "growth"}

TopProductKeywords == {"top product", "best seller", "highest revenue"}

AnalyticsKeywords == {"analyze", "analysis", "report", "visualize", "chart"}

\* r'\b(20\d{2}|201\d|202\d)\b': the alternatives, "d" standing for \d
ProfitMarginYearPattern == <<"20dd", "201d", "202d">>

\* r'\b(20\d{2})\b'
TopProductYearPattern == <<"20dd">>

\* one alternative matched at position i of s
MatchAlternative(s, i, alt) ==
    /\ i + Len(alt) - 1 <= Len(s)
    /\ \A j \in 1..Len(alt) :
          IF CharAt(alt, j) = "d"
          THEN CharAt(s, i + j - 1) \in Digits
          ELSE CharAt(s, i + j - 1) = CharAt(alt, j)

\* \b(alt1|alt2|...)\b matched at position i of s: the matched text, or <<>>
MatchAt(s, i, pattern) ==
    LET ok(k) == /\ WordBoundary(s, i)
                 /\ MatchAlternative(s, i, pattern[k])
                 /\ WordBoundary(s, i + Len(pattern[k]))
        hits == {k \in 1..Len(pattern) : ok(k)}
    IN  IF hits = {} THEN <<>>
        ELSE LET k == CHOOSE h \in hits : \A g \in hits : h <= g
             IN  <<SubSeq(s, i, i + Len(pattern[k]) - 1)>>

\* re.search(pattern, s) followed by int(match.group()): <<year>> or NoYear
SearchYear(s, pattern) ==
    LET at == {i \in 1..Len(s) : MatchAt(s, i, pattern) # <<>>}
    IN  IF at = {} THEN NoYear
        ELSE LET i == CHOOSE a \in at : \A b \in at : a <= b
             IN  <<ParseInt(MatchAt(s, i, pattern)[1])>>

parse_intent_swapped(text) ==
    LET user_lower == Lower(text)
    IN  IF ContainsAny(user_lower, InitializationKeywords)
        THEN [type |-> "initialization"]
        ELSE IF ContainsAny(user_lower, TopProductKeywords)
        THEN [type |-> "data_query", query_type |-> "top_products",
              parameters |-> [year |-> SearchYear(text, TopProductYearPattern)]]
        ELSE IF ContainsAny(user_lower, RevenueTrendKeywords)
        THEN [type |-> "data_query", query_type |-> "revenue_trends"]
        ELSE IF ContainsAny(user_lower, ProfitMarginKeywords)
        THEN [type |-> "data_query", query_type |-> "profit_margin_by_year",
              parameters |-> [year |-> SearchYear(text, ProfitMarginYearPattern)]]
        ELSE IF ContainsAny(user_lower, AnalyticsKeywords)
        THEN [type |-> "analytics"]
        ELSE [type |-> "conversation"]

parse_intent(text) ==
    LET user_lower == Lower(text)
    IN  IF ContainsAny(user_lower, InitializationKeywords)
        THEN [type |-> "initialization"]
        ELSE IF ContainsAny(user_lower, ProfitMarginKeywords)
        THEN [type |-> "data_query", query_type |-> "profit_margin_by_year",
              parameters |-> [year |-> SearchYear(text, ProfitMarginYearPattern)]]
        ELSE IF ContainsAny(user_lower, RevenueTrendKeywords)
        THEN [type |-> "data_query", query_type |-> "revenue_trends"]
        ELSE IF ContainsAny(user_lower, TopProductKeywords)
        THEN [type |-> "data_query", query_type |-> "top_products",
              parameters |-> [year |-> SearchYear(text, TopProductYearPattern)]]
        ELSE IF ContainsAny(user_lower, AnalyticsKeywords)
        THEN [type |-> "analytics"]
        ELSE [type |-> "conversation"]

\* the phrases the texts given to the router are made of
Phrases ==
    {"Initialize", "profit margin", "Sales Trend", "best seller", "chart",
     "hello", "2015", "2005", "x2015"}

RECURSIVE TextsOfLength(_)
\* the texts of n phrases, separated by blanks
TextsOfLength(n) ==
    IF n = 1 THEN Phrases
    ELSE {t \o " " \o p : t \in TextsOfLength(n - 1), p \in Phrases}

\* the texts given to the router
Texts == UNION {TextsOfLength(n) : n \in 1..MaxPhrases}

\* the texts of the requests made to the coordinator
RequestTexts ==
    {"load data", "profit margin 2015", "Profit Margin", "profit margin 2005",
     "sales trend", "top product 2016", "full report", "hello", "sales forecast"}

\* _parse_intent on each of the request texts
IntentOf == [t \in RequestTexts |-> parse_intent(t)]

(***************************************************************************)
(* The data source: what pd.read_csv finds at data_path.                   *)
(***************************************************************************)
Row(date, year, product, revenue, profit, cost, qty, customer) ==
    [Date |-> date, Year |-> year, Product |-> product, Revenue |-> revenue,
     Profit |-> profit, Cost |-> cost, Order_Quantity |-> qty,
     Customer |-> customer]

\* columns of a well-formed source file
SourceColumns ==
    {"Date", "Year", "Month", "Product", "Country", "State", "Customer_Age",
     "Customer_Gender", "Order_Quantity", "Unit_Cost", "Unit_Price",
     "Revenue", "Cost", "Profit", "Product_Category", "Sub_Category"}

RowsA ==
    << Row(20150104, 2015, "Bike", 1000, 200, 800, 2, "30_M_US_CA"),
       Row(20150309, 2015, "Helmet", 500, 100, 400, 1, "25_F_US_WA"),
       Row(20160211, 2016, "Bike", 1500, 300, 1200, 3, "30_M_US_CA") >>

\* a year whose revenue sums to 0, equal product revenues, a duplicated row
RowsB ==
    << Row(20140520, 2014, "Gloves", 0, 0, 0, 1, "41_F_DE_BE"),
       Row(20160101, 2016, "Helmet", 150, 30, 120, 1, "25_F_US_WA"),
       Row(20160101, 2016, "Helmet", 150, 30, 120, 1, "25_F_US_WA"),
       Row(20160707, 2016, "Bike", 150, 45, 105, 1, "30_M_US_CA") >>

\* a file: unreadable, or a table with some columns and rows
File(missing, rows) ==
    [readable |-> TRUE, columns |-> SourceColumns \ missing, rows |-> rows]

Files ==
    {[readable |-> FALSE, columns |-> {}, rows |-> <<>>],
     File({}, RowsA), File({}, RowsB),
     File({"Date"}, RowsB), File({"Profit"}, RowsB), File({"Cost"}, RowsB)}

(***************************************************************************)
(* DataAgent                                                               *)
(***************************************************************************)
\* self.df = None
NoDf == [loaded |-> FALSE, columns |-> {}, rows |-> <<>>]

Raised(msg) == [raised |-> msg]

IsRaised(r) == "raised" \in DOMAIN r

\* str(KeyError(column))
KeyError(column) == "'" \o column \o "'"

\* the first column of needed (in the order the code touches them) not in columns
FirstMissing(needed, columns) ==
    LET idx == {i \in 1..Len(needed) : needed[i] \notin columns}
    IN  IF idx = {} THEN <<>>
        ELSE <<needed[CHOOSE i \in idx : \A j \in idx : i <= j]>>

RECURSIVE DropDuplicates(_)
DropDuplicates(rows) ==
    IF rows = <<>> THEN <<>>
    ELSE LET n == Len(rows)
             front == DropDuplicates(SubSeq(rows, 1, n - 1))
         IN  IF \E i \in 1..Len(front) : front[i] = rows[n]
             THEN front ELSE Append(front, rows[n])

CleanNeeds == <<"Date">>

\* DataAgent._clean_data
clean_data(d) ==
    LET miss == FirstMissing(CleanNeeds, d.columns)
    IN  IF miss # <<>> THEN Raised(KeyError(miss[1]))
        ELSE [loaded |-> TRUE, columns |-> d.columns, rows |-> DropDuplicates(d.rows)]

EngineerNeeds ==
    <<"Date", "Profit", "Revenue", "Unit_Price", "Unit_Cost", "Order_Quantity",
      "Customer_Age", "Customer_Gender", "Country", "State">>

EngineeredColumns ==
    {"Quarter", "Week_of_Year", "Day_of_Week", "Day_Name", "Is_Weekend",
     "Month_Year", "Profit_Margin", "Markup_Percentage", "Revenue_per_Unit",
     "Profit_per_Unit", "Customer_ID", "Recency_Days", "Frequency",
     "Monetary_Value"}

\* DataAgent._engineer_features
engineer_features(d) ==
    LET miss == FirstMissing(EngineerNeeds, d.columns)
    IN  IF miss # <<>> THEN Raised(KeyError(miss[1]))
        ELSE [loaded |-> TRUE, columns |-> d.columns \cup EngineeredColumns,
              rows |-> d.rows]

SalesNeeds ==
    <<"Date", "Year", "Month", "Quarter", "Product_Category", "Sub_Category",
      "Product", "Country", "State", "Order_Quantity", "Revenue", "Cost",
      "Profit", "Month_Year">>

CustomerNeeds ==
    <<"Customer_ID", "Customer_Age", "Customer_Gender", "Country", "State",
      "Revenue", "Profit", "Recency_Days", "Frequency", "Monetary_Value">>

ProfitNeeds ==
    <<"Date", "Month_Year", "Product_Category", "Sub_Category", "Product",
      "Country", "State", "Revenue", "Cost", "Profit", "Profit_Margin",
      "Unit_Cost", "Unit_Price">>

\* DataAgent._create_specialized_datasets: each derived dataset is recorded by
\* the rows of the df it was computed from; pd is self.processed_data before
create_specialized_datasets(d, pd) ==
    LET m1 == FirstMissing(SalesNeeds, d.columns)
        m2 == FirstMissing(CustomerNeeds, d.columns)
        m3 == FirstMissing(ProfitNeeds, d.columns)
        put(f, k) == [x \in DOMAIN f \cup {k} |-> IF x = k THEN d.rows ELSE f[x]]
        p1 == put(pd, "sales")
        p2 == put(p1, "customer")
        p3 == put(p2, "profit")
    IN  IF m1 # <<>> THEN [raised |-> KeyError(m1[1]), processed_data |-> pd]
        ELSE IF m2 # <<>> THEN [raised |-> KeyError(m2[1]), processed_data |-> p1]
        ELSE IF m3 # <<>> THEN [raised |-> KeyError(m3[1]), processed_data |-> p2]
        ELSE [processed_data |-> p3]

Min(S) == CHOOSE x \in S : \A y \in S : x <= y

Max(S) == CHOOSE x \in S : \A y \in S : x >= y

ColumnValues(rows, c) == {rows[i][c] : i \in 1..Len(rows)}

\* DataAgent.load_and_prepare_data: the value returned or the exception
\* raised, and self.df / self.processed_data as the call leaves them
load_and_prepare_data(file, d0, pd0) ==
    IF ~file.readable
    THEN [ret |-> Raised("No columns to parse from file"), df |-> d0,
          processed_data |-> pd0]
    ELSE
    LET raw == [loaded |-> TRUE, columns |-> file.columns, rows |-> file.rows]
        cleaned == clean_data(raw)
    IN  IF IsRaised(cleaned)
        THEN [ret |-> cleaned, df |-> raw, processed_data |-> pd0]
        ELSE
        LET engineered == engineer_features(cleaned)
        IN  IF IsRaised(engineered)
            THEN [ret |-> engineered, df |-> cleaned, processed_data |-> pd0]
            ELSE
            LET spec == create_specialized_datasets(engineered, pd0)
            IN  IF IsRaised(spec)
                THEN [ret |-> Raised(spec.raised), df |-> engineered,
                      processed_data |-> spec.processed_data]
                ELSE [ret |-> [success |-> TRUE,
                               message |-> "Data loaded and prepared successfully",
                               rows |-> Len(engineered.rows),
                               columns |-> Cardinality(engineered.columns),
                               date_range |->
                                 [start |-> Min(ColumnValues(engineered.rows, "Date")),
                                  end |-> Max(ColumnValues(engineered.rows, "Date"))]],
                      df |-> engineered,
                      processed_data |-> spec.processed_data]

\* DataAgent.process with action "load_and_prepare": exceptions become failures
data_agent_process_load(file, d0, pd0) ==
    LET r == load_and_prepare_data(file, d0, pd0)
    IN  IF IsRaised(r.ret)
        THEN [ret |-> [error |-> r.ret.raised, success |-> FALSE],
              df |-> r.df, processed_data |-> r.processed_data]
        ELSE r

(***************************************************************************)
(* DataAgent queries.  Money is an integer; percentages are kept in        *)
(* hundredths (round(x, 2) * 100), NaN and inf as tagged values.           *)
(***************************************************************************)
RECURSIVE SortedSeq(_)
\* sorted(set)
SortedSeq(S) ==
    IF S = {} THEN <<>> ELSE <<Min(S)>> \o SortedSeq(S \ {Min(S)})

RECURSIVE SumColumn(_, _)
SumColumn(rows, c) ==
    IF rows = <<>> THEN 0 ELSE rows[1][c] + SumColumn(Tail(rows), c)

\* round-half-even of n / d, d > 0
RoundDiv(n, d) ==
    LET q == n \div d
        r == n - q * d
    IN  IF 2 * r < d THEN q
        ELSE IF 2 * r > d THEN q + 1
        ELSE IF q % 2 = 0 THEN q ELSE q + 1

Num(v) == [kind |-> "num", v |-> v]

NaN == [kind |-> "nan", v |-> 0]

Inf(sign) == [kind |-> "inf", v |-> sign]

\* round(a / b * 100, 2) of a float division, in hundredths
PercentOf(a, b) ==
    IF b > 0 THEN Num(RoundDiv(a * 10000, b))
    ELSE IF b < 0 THEN Num(RoundDiv((0 - a) * 10000, 0 - b))
    ELSE IF a = 0 THEN NaN
    ELSE Inf(IF a > 0 THEN 1 ELSE 0 - 1)

\* self.df['Year'] == year: comparing with None is False on every row
YearIs(row, year) == year # NoYear /\ row.Year = year[1]

YearText(year) == IF year = NoYear THEN "None" ELSE ToString(year[1])

get_profit_margin_by_year_empty_ok(d, year) ==
    IF ~d.loaded THEN [error |-> "Data not loaded"]
    ELSE IF "Year" \notin d.columns THEN Raised(KeyError("Year"))
    ELSE
    LET keep(r) == YearIs(r, year)
        year_data == SelectSeq(d.rows, keep)
        miss == FirstMissing(<<"Revenue", "Profit", "Cost", "Customer_ID">>, d.columns)
        total_revenue == SumColumn(year_data, "Revenue")
        total_profit == SumColumn(year_data, "Profit")
    IN  IF miss # <<>> THEN Raised(KeyError(miss[1]))
        ELSE [success |-> TRUE,
              year |-> year,
              revenue |-> total_revenue,
              profit |-> total_profit,
              cost |-> SumColumn(year_data, "Cost"),
              profit_margin |-> IF total_revenue > 0
                                THEN PercentOf(total_profit, total_revenue)
                                ELSE Num(0),
              total_orders |-> Len(year_data),
              unique_customers |-> Cardinality(ColumnValues(year_data, "Customer"))]

\* DataAgent._get_profit_margin_by_year
get_profit_margin_by_year(d, year) ==
    IF ~d.loaded THEN [error |-> "Data not loaded"]
    ELSE IF "Year" \notin d.columns THEN Raised(KeyError("Year"))
    ELSE
    LET keep(r) == YearIs(r, year)
        year_data == SelectSeq(d.rows, keep)
        miss == FirstMissing(<<"Revenue", "Profit", "Cost", "Customer_ID">>, d.columns)
        total_revenue == SumColumn(year_data, "Revenue")
        total_profit == SumColumn(year_data, "Profit")
    IN  IF year_data = <<>>
        THEN [error |-> "No data found for year " \o YearText(year),
              available_years |-> SortedSeq(ColumnValues(d.rows, "Year"))]
        ELSE IF miss # <<>> THEN Raised(KeyError(miss[1]))
        ELSE [success |-> TRUE,
              year |-> year,
              revenue |-> total_revenue,
              profit |-> total_profit,
              cost |-> SumColumn(year_data, "Cost"),
              profit_margin |-> IF total_revenue > 0
                                THEN PercentOf(total_profit, total_revenue)
                                ELSE Num(0),
              total_orders |-> Len(year_data),
              unique_customers |-> Cardinality(ColumnValues(year_data, "Customer"))]

\* one row of yearly_summary, given the previous year's revenue (<<>> if none)
TrendRow(rows, y, prev) ==
    LET keep(r) == r.Year = y
        g == SelectSeq(rows, keep)
        revenue == SumColumn(g, "Revenue")
    IN  [Year |-> y,
         Revenue |-> revenue,
         Profit |-> SumColumn(g, "Profit"),
         Orders |-> SumColumn(g, "Order_Quantity"),
         Customers |-> Cardinality(ColumnValues(g, "Customer")),
         Profit_Margin |-> PercentOf(SumColumn(g, "Profit"), revenue),
         Revenue_Growth |-> IF prev = <<>> THEN NaN
                            ELSE PercentOf(revenue - prev[1], prev[1])]

RECURSIVE TrendRows_growth_from_first(_, _, _)
TrendRows_growth_from_first(rows, years, prev) ==
    IF years = <<>> THEN <<>>
    ELSE LET row == TrendRow(rows, years[1], prev)
         IN  <<row>> \o TrendRows_growth_from_first(rows, Tail(years),
                           IF prev = <<>> THEN <<row.Revenue>> ELSE prev)

RECURSIVE TrendRows(_, _, _)
\* the rows of yearly_summary for the years in ascending order, each with the
\* growth over the row before it (pct_change)
TrendRows(rows, years, prev) ==
    IF years = <<>> THEN <<>>
    ELSE LET row == TrendRow(rows, years[1], prev)
         IN  <<row>> \o TrendRows(rows, Tail(years), <<row.Revenue>>)

\* DataAgent._get_revenue_trends(None, None)
get_revenue_trends(d) ==
    IF ~d.loaded THEN [error |-> "Data not loaded"]
    ELSE
    LET miss == FirstMissing(<<"Year", "Revenue", "Profit", "Order_Quantity",
                               "Customer_ID">>, d.columns)
    IN  IF miss # <<>> THEN Raised(KeyError(miss[1]))
        ELSE [success |-> TRUE,
              trends |-> TrendRows(d.rows, SortedSeq(ColumnValues(d.rows, "Year")), <<>>)]

\* the default of params.get("limit", 5)
DefaultLimit == 5

ProductRow(rows, p) ==
    LET keep(r) == r.Product = p
        g == SelectSeq(rows, keep)
    IN  [Product |-> p, Revenue |-> SumColumn(g, "Revenue"),
         Profit |-> SumColumn(g, "Profit"), Orders |-> SumColumn(g, "Order_Quantity")]

\* the product names of the data, in ascending (lexicographic) order
ProductNames == <<"Bike", "Gloves", "Helmet">>

NameIndex(p) == CHOOSE i \in 1..Len(ProductNames) : ProductNames[i] = p

\* the keys of groupby('Product'), a categorical column: with observed=True
\* the products of the filtered rows, with observed=False every category,
\* that is every product of the cleaned data (the default depends on the
\* pandas version)
GroupKeys(d, df_filtered, observed) ==
    IF observed THEN ColumnValues(df_filtered, "Product")
    ELSE ColumnValues(d.rows, "Product")

\* the orders sort_values('Revenue', ascending=False) can leave the groups in:
\* the default sort (quicksort) is not stable, groups of equal revenue come
\* in any order
SortOrders(rows, keys) ==
    {ord \in [1..Cardinality(keys) -> keys] :
       /\ \A i, j \in DOMAIN ord : i # j => ord[i] # ord[j]
       /\ \A i, j \in DOMAIN ord :
            i < j => ProductRow(rows, ord[i]).Revenue >= ProductRow(rows, ord[j]).Revenue}

\* .head(limit) for limit >= 0
FirstRows(s, limit) == IF Len(s) <= limit THEN s ELSE SubSeq(s, 1, limit)

\* DataAgent._get_top_products: the values the call can return
get_top_products(d, year, limit) ==
    IF ~d.loaded THEN {[error |-> "Data not loaded"]}
    ELSE IF year # NoYear /\ "Year" \notin d.columns THEN {Raised(KeyError("Year"))}
    ELSE
    LET keep(r) == year = NoYear \/ YearIs(r, year)
        miss == FirstMissing(<<"Product", "Revenue", "Profit", "Order_Quantity">>,
                             d.columns)
    IN  IF miss # <<>> THEN {Raised(KeyError(miss[1]))}
        ELSE UNION {
               {[success |-> TRUE,
                 year |-> year,
                 top_products |->
                   FirstRows([k \in DOMAIN ord |-> ProductRow(df_filtered, ord[k])], limit)] :
                  ord \in SortOrders(df_filtered, GroupKeys(d, df_filtered, observed))} :
               df_filtered \in {SelectSeq(d.rows, keep)}, observed \in BOOLEAN}

\* params.get("year")
YearOf(params) == IF "year" \in DOMAIN params THEN params.year ELSE NoYear

\* DataAgent.query_data: the values the call can return (or raise)
query_data(d, params) ==
    IF params.query_type = "profit_margin_by_year"
    THEN {get_profit_margin_by_year(d, YearOf(params))}
    ELSE IF params.query_type = "revenue_trends"
    THEN {get_revenue_trends(d)}
    ELSE IF params.query_type = "top_products"
    THEN get_top_products(d, YearOf(params),
                          IF "limit" \in DOMAIN params THEN params.limit
                          ELSE DefaultLimit)
    ELSE {[error |-> "Unknown query type: " \o params.query_type]}

\* DataAgent.get_data_summary
get_data_summary(d) ==
    IF ~d.loaded THEN [error |-> "Data not loaded"]
    ELSE
    LET miss == FirstMissing(<<"Date", "Year", "Revenue", "Profit", "Product",
                               "Customer_ID", "Country">>, d.columns)
    IN  IF miss # <<>> THEN Raised(KeyError(miss[1]))
        ELSE [success |-> TRUE,
              total_records |-> Len(d.rows),
              years_available |-> SortedSeq(ColumnValues(d.rows, "Year")),
              total_revenue |-> SumColumn(d.rows, "Revenue"),
              total_profit |-> SumColumn(d.rows, "Profit")]

(***************************************************************************)
(* ConversationalAgent                                                     *)
(***************************************************************************)
sales_keywords ==
    {"sales", "revenue", "profit", "margin", "income", "customer",
     "marketing", "lead", "conversion", "growth", "forecast"}

\* re.findall(r"\b\w+\b", s): the maximal runs of word characters
Words(s) ==
    {SubSeq(s, p[1], p[2]) :
       p \in {q \in (1..Len(s)) \X (1..Len(s)) :
                /\ q[1] <= q[2]
                /\ \A k \in q[1]..q[2] : IsWordChar(CharAt(s, k))
                /\ (q[1] = 1 \/ ~IsWordChar(CharAt(s, q[1] - 1)))
                /\ (q[2] = Len(s) \/ ~IsWordChar(CharAt(s, q[2] + 1)))}}

is_sales_related_substring(text) ==
    \E k \in sales_keywords : Contains(Lower(text), k)

\* ConversationalAgent._is_sales_related
is_sales_related(text) == Words(Lower(text)) \cap sales_keywords # {}

\* the models of the external service and what one call to a model yields
CasualModel == "mistral-small-latest"

BusinessModels == <<"open-mistral-7b", "mistral-tiny", "mistral-small-latest">>

Replies == {"Here is what the data shows."}

ErrorMessages ==
    {"API error occurred: Status 429", "Service tier CAPACITY exceeded",
     "API error occurred: Status 401"}

Outcomes ==
    {[ok |-> TRUE, text |-> r] : r \in Replies}
    \cup {[ok |-> FALSE, text |-> e] : e \in ErrorMessages}

ModelNames == {BusinessModels[i] : i \in 1..Len(BusinessModels)} \cup {CasualModel}

\* what the service answers to the calls of one request
ServiceOutcomes == [ModelNames -> Outcomes]

\* the answers the coordinator tells apart: a reply or a failure
CoarseOutcomes ==
    [ModelNames -> {o \in Outcomes : o.ok \/ o.text = "API error occurred: Status 429"}]

\* the number of most recent history entries replayed to the model
HistoryWindow == 5

LastEntries_oldest(h, n) == IF Len(h) <= n THEN h ELSE SubSeq(h, 1, n)

\* conversation_history[-5:]
LastEntries(h, n) == IF Len(h) <= n THEN h ELSE SubSeq(h, Len(h) - n + 1, Len(h))

\* one call of client.chat.complete and what it yielded
Attempt(model, o) == [model |-> model, answer |-> o]

Msg(role, content) == [role |-> role, content |-> content]

CasualSystemPrompt == "You are a friendly assistant for general conversation."

BusinessSystemPrompt == "You are a smart business analytics assistant."

casual_chat_with_fallback(h, user_message, outcome) ==
    LET messages == <<Msg("system", CasualSystemPrompt)>>
                    \o LastEntries(h, HistoryWindow)
                    \o <<Msg("user", user_message)>>
        o == outcome[CasualModel]
        second == outcome[BusinessModels[1]]
    IN  IF o.ok
        THEN [ret |-> [success |-> TRUE, response |-> o.text, mode |-> "casual"],
              path |-> "_casual_chat",
              history |-> h \o <<Msg("user", user_message), Msg("assistant", o.text)>>,
              attempts |-> <<Attempt(CasualModel, o)>>, sent |-> messages]
        ELSE IF Contains(o.text, "429")
        THEN [ret |-> IF second.ok
                      THEN [success |-> TRUE, response |-> second.text,
                            mode |-> "casual"]
                      ELSE [success |-> FALSE, error |-> second.text],
              path |-> "_casual_chat",
              history |-> IF second.ok
                          THEN h \o <<Msg("user", user_message),
                                      Msg("assistant", second.text)>>
                          ELSE h,
              attempts |-> <<Attempt(CasualModel, o),
                             Attempt(BusinessModels[1], second)>>,
              sent |-> messages]
        ELSE [ret |-> [success |-> FALSE, error |-> o.text],
              path |-> "_casual_chat",
              history |-> h, attempts |-> <<Attempt(CasualModel, o)>>, sent |-> messages]

\* ConversationalAgent._casual_chat: the returned dict, the history after the
\* call, the models attempted and the messages sent
casual_chat(h, user_message, outcome) ==
    LET messages == <<Msg("system", CasualSystemPrompt)>>
                    \o LastEntries(h, HistoryWindow)
                    \o <<Msg("user", user_message)>>
        o == outcome[CasualModel]
    IN  IF o.ok
        THEN [ret |-> [success |-> TRUE, response |-> o.text, mode |-> "casual"],
              path |-> "_casual_chat",
              history |-> h \o <<Msg("user", user_message), Msg("assistant", o.text)>>,
              attempts |-> <<Attempt(CasualModel, o)>>, sent |-> messages]
        ELSE [ret |-> [success |-> FALSE, error |-> o.text],
              path |-> "_casual_chat",
              history |-> h, attempts |-> <<Attempt(CasualModel, o)>>, sent |-> messages]

is_capacity_error_any_4(e) == Contains(e, "4") \/ Contains(Lower(e), "capacity")

\* "429" in str(e) or "capacity" in str(e).lower()
is_capacity_error(e) == Contains(e, "429") \/ Contains(Lower(e), "capacity")

\* the capacity test on each failure message of the service
CapacityError == [e \in ErrorMessages |-> is_capacity_error(e)]

AllAtCapacity ==
    [success |-> FALSE,
     error |-> "All models are at capacity. Please try again later.",
     mode |-> "sales"]

RECURSIVE try_models_from_second(_, _, _)
try_models_from_second(models, outcome, i) ==
    LET k == IF i = 1 /\ Len(models) > 1 THEN 2 ELSE i
    IN  IF k > Len(models) THEN [ret |-> AllAtCapacity, attempts |-> <<>>]
        ELSE
        LET model == models[k]
            o == outcome[model]
        IN  IF o.ok
            THEN [ret |-> [success |-> TRUE, response |-> o.text,
                           model_used |-> model, mode |-> "sales"],
                  attempts |-> <<Attempt(model, o)>>]
            ELSE IF CapacityError[o.text]
            THEN LET rest == try_models_from_second(models, outcome, k + 1)
                 IN  [ret |-> rest.ret, attempts |-> <<Attempt(model, o)>> \o rest.attempts]
            ELSE [ret |-> [success |-> FALSE, error |-> o.text],
                  attempts |-> <<Attempt(model, o)>>]

RECURSIVE try_models_give_up_early(_, _, _)
try_models_give_up_early(models, outcome, i) ==
    IF i >= Len(models) THEN [ret |-> AllAtCapacity, attempts |-> <<>>]
    ELSE
    LET model == models[i]
        o == outcome[model]
    IN  IF o.ok
        THEN [ret |-> [success |-> TRUE, response |-> o.text,
                       model_used |-> model, mode |-> "sales"],
              attempts |-> <<Attempt(model, o)>>]
        ELSE IF CapacityError[o.text]
        THEN LET rest == try_models_give_up_early(models, outcome, i + 1)
             IN  [ret |-> rest.ret, attempts |-> <<Attempt(model, o)>> \o rest.attempts]
        ELSE [ret |-> [success |-> FALSE, error |-> o.text],
              attempts |-> <<Attempt(model, o)>>]

RECURSIVE try_models(_, _, _)
\* the loop `for model in models` of _business_chat from the i-th model on:
\* the returned dict and the models attempted, in order
try_models(models, outcome, i) ==
    IF i > Len(models) THEN [ret |-> AllAtCapacity, attempts |-> <<>>]
    ELSE
    LET model == models[i]
        o == outcome[model]
    IN  IF o.ok
        THEN [ret |-> [success |-> TRUE, response |-> o.text,
                       model_used |-> model, mode |-> "sales"],
              attempts |-> <<Attempt(model, o)>>]
        ELSE IF CapacityError[o.text]
        THEN LET rest == try_models(models, outcome, i + 1)
             IN  [ret |-> rest.ret, attempts |-> <<Attempt(model, o)>> \o rest.attempts]
        ELSE [ret |-> [success |-> FALSE, error |-> o.text],
              attempts |-> <<Attempt(model, o)>>]

business_chat_appends_per_attempt(h, user_message, context, outcome) ==
    LET messages == <<Msg("system", BusinessSystemPrompt)>>
                    \o (IF context # "" THEN <<Msg("system", "Context: " \o context)>>
                        ELSE <<>>)
                    \o LastEntries(h, HistoryWindow)
                    \o <<Msg("user", user_message)>>
        r == try_models(BusinessModels, outcome, 1)
    IN  [ret |-> r.ret, path |-> "_business_chat",
         history |-> IF r.ret.success
                     THEN h \o [i \in 1..(2 * Len(r.attempts)) |->
                                  IF i % 2 = 1 THEN Msg("user", user_message)
                                  ELSE Msg("assistant", r.ret.response)]
                     ELSE h,
         attempts |-> r.attempts, sent |-> messages]

business_chat_keeps_failed_turn(h, user_message, context, outcome) ==
    LET messages == <<Msg("system", BusinessSystemPrompt)>>
                    \o (IF context # "" THEN <<Msg("system", "Context: " \o context)>>
                        ELSE <<>>)
                    \o LastEntries(h, HistoryWindow)
                    \o <<Msg("user", user_message)>>
        r == try_models(BusinessModels, outcome, 1)
    IN  [ret |-> r.ret, path |-> "_business_chat",
         history |-> IF r.ret.success
                     THEN h \o <<Msg("user", user_message),
                                 Msg("assistant", r.ret.response)>>
                     ELSE h \o <<Msg("user", user_message)>>,
         attempts |-> r.attempts, sent |-> messages]

\* ConversationalAgent._business_chat
business_chat(h, user_message, context, outcome) ==
    LET messages == <<Msg("system", BusinessSystemPrompt)>>
                    \o (IF context # "" THEN <<Msg("system", "Context: " \o context)>>
                        ELSE <<>>)
                    \o LastEntries(h, HistoryWindow)
                    \o <<Msg("user", user_message)>>
        r == try_models(BusinessModels, outcome, 1)
    IN  [ret |-> r.ret, path |-> "_business_chat",
         history |-> IF r.ret.success
                     THEN h \o <<Msg("user", user_message),
                                 Msg("assistant", r.ret.response)>>
                     ELSE h,
         attempts |-> r.attempts, sent |-> messages]

ExplainPrompt == "Explain the following business analysis results in simple terms."

InsightsPrompt == "Based on this data, provide 3-5 insights and recommendations"

\* the most words a chat message is made of
MaxChatWords == 2

\* the words the chat messages are made of
ChatWords ==
    {"sales", "customers", "profitable", "Revenue", "hello", "lead",
     "misleading", "profit,", "pre_sales", "GROWTH!"}

RECURSIVE ChatTextsOfLength(_)
ChatTextsOfLength(n) ==
    IF n = 1 THEN ChatWords
    ELSE {t \o " " \o w : t \in ChatTextsOfLength(n - 1), w \in ChatWords}

\* the messages given to chat
ChatTexts == UNION {ChatTextsOfLength(n) : n \in 1..MaxChatWords}

\* _is_sales_related on each of the texts
SalesRelated ==
    [t \in RequestTexts \cup {ExplainPrompt, InsightsPrompt} \cup ChatTexts |->
       is_sales_related(t)]

chat_always_business(h, user_message, context, outcome) ==
    business_chat(h, user_message, context, outcome)

\* ConversationalAgent.chat
chat(h, user_message, context, outcome) ==
    IF SalesRelated[user_message]
    THEN business_chat(h, user_message, context, outcome)
    ELSE casual_chat(h, user_message, outcome)

\* ConversationalAgent._format_results: one line per key of the dict
format_results(results) == ToString(results)

\* ConversationalAgent.explain_results
explain_results(h, results, outcome) ==
    business_chat(h, ExplainPrompt,
                  "Analysis Results:\n" \o format_results(results), outcome)

\* ConversationalAgent.generate_insights
generate_insights(h, data, outcome) ==
    business_chat(h, InsightsPrompt,
                  "Business Data:\n" \o format_results(data), outcome)

(***************************************************************************)
(* AnalyticsAgent.process with action "full_analysis"                      *)
(***************************************************************************)
AnalysisNeeds ==
    <<"Year", "Revenue", "Profit", "Cost", "Order_Quantity", "Customer_ID">>

\* env_ok: whether writing the charts and files of the report works
full_analysis(d, env_ok) ==
    LET miss == FirstMissing(AnalysisNeeds, d.columns)
    IN  IF ~d.loaded
        THEN [success |-> FALSE, error |-> "AnalyticsAgent requires a pandas DataFrame"]
        ELSE IF miss # <<>> THEN [success |-> FALSE, error |-> KeyError(miss[1])]
        ELSE IF ~env_ok THEN [success |-> FALSE, error |-> "cannot write to outputs"]
        ELSE [success |-> TRUE,
              message |-> "Full analysis completed (EDA-style)",
              results |-> [kpi_summary |-> [success |-> TRUE,
                                            years |-> SortedSeq(ColumnValues(d.rows, "Year"))]]]

(***************************************************************************)
(* CoordinatorAgent                                                        *)
(***************************************************************************)
\* no request has returned yet
NoResult == [pending |-> TRUE]

\* dict.get(key) where the value is a string
Get(d, key) == IF key \in DOMAIN d THEN d[key] ELSE None

\* `if d.get("success")`
Succeeded(d) == "success" \in DOMAIN d /\ d.success = TRUE

DataNotLoadedQuery ==
    "Data not loaded. Please load data first by saying 'load data' or 'initialize'."

DataNotLoadedAnalytics == "Data not loaded. Please load data first."

data_not_loaded_never(loaded) == FALSE

\* `if not self.data_loaded` of the data_query and analytics handlers
data_not_loaded(loaded) == ~loaded

next_data_loaded_follows_result(loaded, load_result) == Succeeded(load_result)

next_data_loaded_always_true(loaded, load_result) == TRUE

\* `if load_result.get("success"): self.data_loaded = True`
next_data_loaded(loaded, load_result) ==
    IF Succeeded(load_result) THEN TRUE ELSE loaded

\* {"query_type": intent["query_type"], **intent.get("parameters", {})}
query_params(intent) ==
    [k \in {"query_type"} \cup
           (IF "parameters" \in DOMAIN intent THEN DOMAIN intent.parameters ELSE {}) |->
       IF k = "query_type" THEN intent.query_type ELSE intent.parameters[k]]

\* the parameters of the query of each data_query request text
QueryParams ==
    [t \in {x \in RequestTexts : IntentOf[x].type = "data_query"} |->
       query_params(IntentOf[t])]

\* what a request that makes no model call leaves alone
NoBridgeCall ==
    /\ attempts' = <<>>
    /\ sent' = <<>>
    /\ UNCHANGED conversation_history

\* the effect of a call r of the conversational agent
BridgeCall(r, bound) ==
    /\ Len(r.history) <= bound
    /\ conversation_history' = r.history
    /\ attempts' = r.attempts
    /\ sent' = r.sent

data_query_envelope_follows_bridge(qr, explanation) ==
    [success |-> explanation.success,
     data |-> qr,
     response |-> Get(explanation, "response"),
     workflow |-> <<"data_agent", "conversational_agent">>]

\* the envelope _handle_data_query returns after explain_results
data_query_envelope(qr, explanation) ==
    [success |-> TRUE,
     data |-> qr,
     response |-> Get(explanation, "response"),
     workflow |-> <<"data_agent", "conversational_agent">>]

\* CoordinatorAgent.process -> _handle_data_query
HandleDataQuery(text) ==
    /\ IntentOf[text].type = "data_query"
    /\ user_input' = text
    /\ UNCHANGED <<data_loaded, df, processed_data, failed_in_no_data>>
    /\ IF data_not_loaded(data_loaded)
       THEN /\ result' = [success |-> FALSE, response |-> DataNotLoadedQuery]
            /\ query_result' = NoResult
            /\ calls' = <<>>
            /\ NoBridgeCall
       ELSE \E qr \in query_data(df, QueryParams[text]) :
            IF IsRaised(qr)
            THEN /\ result' = qr
                 /\ query_result' = qr
                 /\ calls' = <<"data_agent.query_data">>
                 /\ NoBridgeCall
            ELSE IF ~Succeeded(qr)
            THEN \E outcome \in CoarseOutcomes :
                 \E fallback \in {chat(conversation_history, text,
                                       "Query failed: " \o
                                         (IF "error" \in DOMAIN qr THEN qr.error
                                          ELSE "Unknown error"),
                                       outcome)} :
                      /\ result' = fallback.ret
                      /\ query_result' = qr
                      /\ calls' = <<"data_agent.query_data",
                                    "conversational_agent.chat", fallback.path>>
                      /\ BridgeCall(fallback, MaxHistory)
            ELSE \E outcome \in CoarseOutcomes :
                 \E explanation \in {explain_results(conversation_history, qr,
                                                      outcome)} :
                      /\ query_result' = qr
                      /\ result' = data_query_envelope(qr, explanation.ret)
                      /\ calls' = <<"data_agent.query_data",
                                    "conversational_agent.explain_results",
                                    explanation.path>>
                      /\ BridgeCall(explanation, MaxHistory)

analysis_failure_unprefixed(analysis_result) ==
    [success |-> FALSE, response |-> Get(analysis_result, "error")]

\* the envelope returned `if not analysis_result.get("success")`
analysis_failure(analysis_result) ==
    [success |-> FALSE,
     response |-> "Analysis failed: " \o Get(analysis_result, "error")]

\* CoordinatorAgent.process -> _handle_analytics_request
HandleAnalytics(text, env_ok) ==
    LET intent == IntentOf[text]
        analysis_result == full_analysis(df, env_ok)
    IN  /\ intent.type = "analytics"
        /\ user_input' = text
        /\ UNCHANGED <<data_loaded, df, processed_data, failed_in_no_data>>
        /\ query_result' = NoResult
        /\ IF data_not_loaded(data_loaded)
           THEN /\ result' = [success |-> FALSE, response |-> DataNotLoadedAnalytics]
                /\ calls' = <<>>
                /\ NoBridgeCall
           ELSE IF ~Succeeded(analysis_result)
           THEN /\ result' = analysis_failure(analysis_result)
                /\ calls' = <<"analytics_agent.process">>
                /\ NoBridgeCall
           ELSE \E outcome \in CoarseOutcomes :
                  LET insights == generate_insights(conversation_history,
                                                    analysis_result.results, outcome)
                  IN  /\ result' = [success |-> TRUE,
                                    analysis |-> analysis_result,
                                    response |-> Get(insights.ret, "response"),
                                    workflow |-> <<"data_agent", "analytics_agent",
                                                   "conversational_agent">>]
                      /\ calls' = <<"analytics_agent.process",
                                    "conversational_agent.generate_insights",
                                    insights.path>>
                      /\ BridgeCall(insights, MaxHistory)

\* CoordinatorAgent.process -> _handle_conversation
HandleConversation(text) ==
    LET intent == IntentOf[text]
        summary == get_data_summary(df)
        context == IF data_loaded
                   THEN "Available data: " \o ToString(summary.years_available)
                        \o " | Total revenue: $" \o ToString(summary.total_revenue)
                   ELSE ""
    IN  /\ intent.type \notin {"data_query", "analytics", "initialization"}
        /\ user_input' = text
        /\ UNCHANGED <<data_loaded, df, processed_data, failed_in_no_data>>
        /\ query_result' = NoResult
        /\ IF data_loaded /\ IsRaised(summary)
           THEN /\ result' = summary
                /\ calls' = <<"data_agent.get_data_summary">>
                /\ NoBridgeCall
           ELSE \E outcome \in CoarseOutcomes :
                  LET chat_result == chat(conversation_history, text, context, outcome)
                  IN  /\ result' = [success |-> chat_result.ret.success,
                                    response |-> Get(chat_result.ret, "response"),
                                    workflow |-> <<"conversational_agent">>]
                      /\ calls' = (IF data_loaded
                                   THEN <<"data_agent.get_data_summary">>
                                   ELSE <<>>)
                                  \o <<"conversational_agent.chat", chat_result.path>>
                      /\ BridgeCall(chat_result, MaxHistory)

\* CoordinatorAgent.process -> _handle_initialization
HandleInitialization(text, file) ==
    LET intent == IntentOf[text]
        load == data_agent_process_load(file, df, processed_data)
        load_result == load.ret
    IN  /\ intent.type = "initialization"
        /\ user_input' = text
        /\ df' = load.df
        /\ processed_data' = load.processed_data
        /\ data_loaded' = next_data_loaded(data_loaded, load_result)
        /\ query_result' = NoResult
        /\ failed_in_no_data' =
             (failed_in_no_data \/ (~data_loaded /\ ~Succeeded(load_result)))
        /\ result' =
             [success |-> load_result.success,
              response |->
                IF Succeeded(load_result)
                THEN "Data loaded successfully!\n" \o ToString(load_result.rows)
                     \o " records from " \o ToString(load_result.date_range.start)
                     \o " to " \o ToString(load_result.date_range.end)
                ELSE "Failed to load data: " \o Get(load_result, "error"),
              data_info |-> load_result]
        /\ calls' = <<"data_agent.process">>
        /\ NoBridgeCall

\* ConversationalAgent.clear_history
ClearHistory ==
    /\ conversation_history # <<>>
    /\ conversation_history' = <<>>
    /\ UNCHANGED <<data_loaded, df, processed_data, user_input, result,
                   query_result, calls, attempts, sent, failed_in_no_data>>

\* the state after CoordinatorAgent.__init__
Init ==
    /\ data_loaded = FALSE
    /\ df = NoDf
    /\ processed_data = <<>>
    /\ conversation_history = <<>>
    /\ user_input = ""
    /\ result = NoResult
    /\ query_result = NoResult
    /\ calls = <<>>
    /\ attempts = <<>>
    /\ sent = <<>>
    /\ failed_in_no_data = FALSE

Next ==
    \/ \E text \in RequestTexts : HandleDataQuery(text)
    \/ \E text \in RequestTexts, env_ok \in BOOLEAN : HandleAnalytics(text, env_ok)
    \/ \E text \in RequestTexts : HandleConversation(text)
    \/ \E text \in RequestTexts, file \in Files : HandleInitialization(text, file)
    \/ ClearHistory

\* the coordinator serving requests one after the other
Spec == Init /\ [][Next]_vars

(***************************************************************************)
(* The router alone: _parse_intent applied to one text.                    *)
(***************************************************************************)
InitRouter ==
    /\ user_input \in Texts
    /\ data_loaded = FALSE
    /\ df = NoDf
    /\ processed_data = <<>>
    /\ conversation_history = <<>>
    /\ result = NoResult
    /\ query_result = NoResult
    /\ calls = <<>>
    /\ attempts = <<>>
    /\ sent = <<>>
    /\ failed_in_no_data = FALSE

\* CoordinatorAgent._parse_intent(user_input)
Route ==
    /\ result = NoResult
    /\ result' = [intent |-> parse_intent(user_input)]
    /\ UNCHANGED <<data_loaded, df, processed_data, conversation_history,
                   user_input, query_result, calls, attempts, sent,
                   failed_in_no_data>>

NextRouter == Route

SpecRouter == InitRouter /\ [][NextRouter]_vars

(***************************************************************************)
(* The conversational agent alone: ConversationalAgent.process with the    *)
(* actions chat, explain_results and generate_insights, and clear_history. *)
(***************************************************************************)
BridgeMessages == {"hello", "sales forecast"}

BridgeContexts == {"", "Query failed: Data not loaded"}

\* a prepared dataset and a query result to explain
SampleDf ==
    [loaded |-> TRUE, columns |-> SourceColumns \cup EngineeredColumns, rows |-> RowsA]

SampleResult == get_profit_margin_by_year(SampleDf, <<2015>>)

BridgeReturns(r, operation) ==
    /\ result' = r.ret
    /\ calls' = <<operation, r.path>>
    /\ BridgeCall(r, MaxBridgeHistory)
    /\ UNCHANGED <<data_loaded, df, processed_data, query_result, failed_in_no_data>>

\* ConversationalAgent.process, action "chat"
BridgeChat(message, context, outcome) ==
    /\ user_input' = message
    /\ BridgeReturns(chat(conversation_history, message, context, outcome),
                     "conversational_agent.chat")

\* ConversationalAgent.process, action "explain_results"
BridgeExplain(outcome) ==
    /\ user_input' = ExplainPrompt
    /\ BridgeReturns(explain_results(conversation_history, SampleResult, outcome),
                     "conversational_agent.explain_results")

\* ConversationalAgent.process, action "generate_insights"
BridgeInsights(outcome) ==
    /\ user_input' = InsightsPrompt
    /\ BridgeReturns(generate_insights(conversation_history, SampleResult, outcome),
                     "conversational_agent.generate_insights")

NextBridge ==
    \/ \E message \in BridgeMessages, context \in BridgeContexts,
          outcome \in ServiceOutcomes : BridgeChat(message, context, outcome)
    \/ \E outcome \in ServiceOutcomes : BridgeExplain(outcome)
    \/ \E outcome \in ServiceOutcomes : BridgeInsights(outcome)
    \/ ClearHistory

SpecBridge == Init /\ [][NextBridge]_vars

(***************************************************************************)
(* The data agent alone: DataAgent.query_data on a prepared dataset.       *)
(***************************************************************************)
\* the most rows a dataset has
MaxRows == 3

QueryYears == <<2015, 2016, 2018>>

QueryProducts == <<"Bike", "Helmet">>

QueryRevenues == <<0, 100, 150>>

\* the order line with the i-th combination of year, product and revenue
QueryRow(i) ==
    LET year == QueryYears[(i \div 6) + 1]
        product == QueryProducts[((i \div 3) % 2) + 1]
        revenue == QueryRevenues[(i % 3) + 1]
        profit == IF product = "Bike" THEN revenue \div 5 ELSE revenue \div 2
    IN  Row(year * 10000 + 101, year, product, revenue, profit, revenue - profit,
            1, "30_M_US_CA")

\* the datasets of at most MaxRows order lines; the queries sum and group the
\* rows, so one order of the rows stands for all
Datasets ==
    UNION {{[k \in 1..n |-> QueryRow(s[k])] :
              s \in {f \in [1..n -> 0..17] : \A a, b \in 1..n : a < b => f[a] <= f[b]}} :
           n \in 1..MaxRows}

\* the parameters of the queries
QueryRequests ==
    {[query_type |-> "revenue_trends"]}
    \cup {[query_type |-> "profit_margin_by_year", year |-> <<y>>] : y \in {2015, 2016}}
    \cup {[query_type |-> "top_products", year |-> <<y>>, limit |-> l] :
            y \in {2015, 2016}, l \in {1, 5}}
    \cup {[query_type |-> "top_products", year |-> NoYear]}

\* a DataAgent whose load_and_prepare_data has succeeded on some dataset
InitQueries ==
    /\ \E rows \in Datasets :
          df = [loaded |-> TRUE, columns |-> SourceColumns \cup EngineeredColumns,
                rows |-> rows]
    /\ data_loaded = TRUE
    /\ processed_data = <<>>
    /\ conversation_history = <<>>
    /\ user_input = ""
    /\ result = NoResult
    /\ query_result = NoResult
    /\ calls = <<>>
    /\ attempts = <<>>
    /\ sent = <<>>
    /\ failed_in_no_data = FALSE

\* DataAgent.query_data(params); sent records the parameters of the call
Query(params) ==
    /\ query_result = NoResult
    /\ query_result' \in query_data(df, params)
    /\ sent' = <<params>>
    /\ calls' = <<"data_agent.query_data">>
    /\ UNCHANGED <<data_loaded, df, processed_data, conversation_history,
                   user_input, result, attempts, failed_in_no_data>>

NextQueries == \E params \in QueryRequests : Query(params)

SpecQueries == InitQueries /\ [][NextQueries]_vars

(***************************************************************************)
(* The mode selection alone: ConversationalAgent.chat on one message of an *)
(* agent with an empty history.                                            *)
(***************************************************************************)
InitChat ==
    /\ user_input \in ChatTexts
    /\ data_loaded = FALSE
    /\ df = NoDf
    /\ processed_data = <<>>
    /\ conversation_history = <<>>
    /\ result = NoResult
    /\ query_result = NoResult
    /\ calls = <<>>
    /\ attempts = <<>>
    /\ sent = <<>>
    /\ failed_in_no_data = FALSE

\* ConversationalAgent.chat(user_input)
Chat(outcome) ==
    /\ result = NoResult
    /\ BridgeReturns(chat(conversation_history, user_input, "", outcome),
                     "conversational_agent.chat")
    /\ UNCHANGED user_input

NextChat == \E outcome \in CoarseOutcomes : Chat(outcome)

SpecChat == InitChat /\ [][NextChat]_vars

(***************************************************************************)
(* Properties                                                              *)
(***************************************************************************)
\* the keyword lists of the rules, in the router's order; rule 6 is the default
RuleKeywords ==
    <<InitializationKeywords, ProfitMarginKeywords, RevenueTrendKeywords,
      TopProductKeywords, AnalyticsKeywords>>

RuleIntent ==
    <<<<"initialization", "">>, <<"data_query", "profit_margin_by_year">>,
      <<"data_query", "revenue_trends">>, <<"data_query", "top_products">>,
      <<"analytics", "">>, <<"conversation", "">>>>

MatchingRules(t) ==
    {r \in 1..Len(RuleKeywords) : ContainsAny(Lower(t), RuleKeywords[r])} \cup {6}

IntentKind(intent) ==
    <<intent.type, IF "query_type" \in DOMAIN intent THEN intent.query_type ELSE "">>

Routed == "intent" \in DOMAIN result

\* C1: a text that matches two or more rules (initialization, profit margin,
\* revenue trends, top products, analytics, conversation) gets the intent of
\* the earliest rule it matches
C1_EarliestRuleWins ==
    Routed /\ Cardinality(MatchingRules(user_input)) >= 2
      => IntentKind(result.intent) = RuleIntent[Min(MatchingRules(user_input))]

C1_Witness ==
    /\ Routed
    /\ {2, 4} \subseteq MatchingRules(user_input)
    /\ 1 \notin MatchingRules(user_input)
    /\ result.intent.query_type = "profit_margin_by_year"

NoDataResponses ==
    {[success |-> FALSE, response |-> DataNotLoadedQuery],
     [success |-> FALSE, response |-> DataNotLoadedAnalytics]}

DataOrAnalyticsRequest ==
    \/ \E text \in RequestTexts : HandleDataQuery(text)
    \/ \E text \in RequestTexts, env_ok \in BOOLEAN : HandleAnalytics(text, env_ok)

\* C2: while data_loaded is false a data_query or analytics request returns the
\* fixed "data not loaded" failure, invokes no agent operation and no model,
\* and leaves data_loaded, the dataset and the conversation history unchanged
C2_NoDataRejects ==
    [][ ~data_loaded /\ DataOrAnalyticsRequest
          => /\ result' \in NoDataResponses
             /\ calls' = <<>>
             /\ attempts' = <<>>
             /\ query_result' = NoResult
             /\ UNCHANGED <<data_loaded, df, processed_data, conversation_history>>
      ]_vars

C2_Witness ==
    /\ ~data_loaded
    /\ failed_in_no_data
    /\ user_input = "sales trend"
    /\ result = [success |-> FALSE, response |-> DataNotLoadedQuery]
    /\ calls = <<>>

InitializationRequest ==
    \E text \in RequestTexts, file \in Files : HandleInitialization(text, file)

\* C3: data_loaded becomes true only in an initialization request whose
\* load_and_prepare returned success, and once true it stays true
C3_DataLoadedMonotone ==
    [][ /\ (~data_loaded /\ data_loaded'
              => InitializationRequest /\ result'.data_info.success = TRUE)
        /\ (data_loaded => data_loaded')
      ]_vars

\* a later initialization has failed and data_loaded is still true
C3_Witness ==
    /\ data_loaded
    /\ calls = <<"data_agent.process">>
    /\ result.success = FALSE

\* a source file that can be read and has every required column
WellFormed(file) == file.readable /\ SourceColumns \subseteq file.columns

\* C4: an initialization against a malformed source returns a failure envelope
\* and leaves data_loaded false if it was false; an initialization against
\* valid data succeeds and sets data_loaded, also after failed loads
C4_FailedLoadDoesNotPoison ==
    [][ \A text \in RequestTexts, file \in Files :
          HandleInitialization(text, file)
            => IF WellFormed(file)
               THEN result'.success = TRUE /\ data_loaded'
               ELSE /\ result'.success = FALSE
                    /\ "error" \in DOMAIN result'.data_info
                    /\ (~data_loaded => ~data_loaded')
      ]_vars

C4_Witness ==
    /\ failed_in_no_data
    /\ data_loaded
    /\ calls = <<"data_agent.process">>
    /\ result.success = TRUE
    /\ EngineeredColumns \subseteq df.columns

Returned == result # NoResult /\ ~IsRaised(result)

\* C5: every envelope returned by process carries a workflow field
C5_EveryEnvelopeHasWorkflow ==
    Returned => "workflow" \in DOMAIN result

ProfitMarginRequest ==
    /\ user_input \in RequestTexts
    /\ IntentOf[user_input].type = "data_query"
    /\ IntentOf[user_input].query_type = "profit_margin_by_year"
    /\ query_result # NoResult

RequestedYear == IntentOf[user_input].parameters.year

\* C6: with data loaded, a profit-margin request without a year is answered by
\* a successful result aggregated over all years of the dataset
C6_NullYearAggregatesAllYears ==
    ProfitMarginRequest /\ RequestedYear = NoYear /\ df.rows # <<>>
      => /\ Succeeded(query_result)
         /\ query_result.revenue = SumColumn(df.rows, "Revenue")

YearsPresent == ColumnValues(df.rows, "Year")

\* s lists exactly the members of S, in ascending order
IsAscendingListOf(s, S) ==
    /\ {s[i] : i \in 1..Len(s)} = S
    /\ \A i \in 1..Len(s), j \in 1..Len(s) : i < j => s[i] < s[j]

AbsentYearRequest ==
    /\ ProfitMarginRequest
    /\ RequestedYear # NoYear
    /\ RequestedYear[1] \notin YearsPresent

\* C7: the profit-margin query for a year that does not occur in the dataset
\* returns a failure whose available_years is the ascending list of the
\* distinct years present, never a success
C7_AbsentYearNotFound ==
    AbsentYearRequest
      => /\ ~IsRaised(query_result)
         /\ ~Succeeded(query_result)
         /\ "available_years" \in DOMAIN query_result
         /\ IsAscendingListOf(query_result.available_years, YearsPresent)

C7_Witness ==
    /\ AbsentYearRequest
    /\ user_input = "profit margin 2015"
    /\ query_result.available_years = <<2014, 2016>>

\* the last request ran _business_chat
BusinessCall == Len(calls) = 2 /\ calls[2] = "_business_chat"

Failed(i) == ~attempts[i].answer.ok

\* the failure message contains "429" or, in any case, "capacity"
CapacitySignal(e) ==
    \/ \E i \in 1..Len(e) : i + 2 <= Len(e) /\ SubSeq(e, i, i + 2) = "429"
    \/ \E i \in 1..Len(e) : i + 7 <= Len(e) /\ Lower(SubSeq(e, i, i + 7)) = "capacity"

CapacityFailure(i) == Failed(i) /\ CapacitySignal(attempts[i].answer.text)

\* C8: business mode goes on to the next model only after a failure whose
\* message contains "429" or "capacity"; any other failure ends the call at
\* once with a failure result
C8_FallThroughOnlyOnCapacity ==
    BusinessCall
      => \A i \in 1..Len(attempts) :
           /\ (i < Len(attempts) => CapacityFailure(i))
           /\ (Failed(i) /\ ~CapacityFailure(i)
                 => /\ i = Len(attempts)
                    /\ result = [success |-> FALSE, error |-> attempts[i].answer.text])

C8_Witness ==
    /\ BusinessCall
    /\ Len(attempts) = 2
    /\ attempts[1].answer.text = "Service tier CAPACITY exceeded"
    /\ attempts[2].answer.text = "API error occurred: Status 401"
    /\ result.success = FALSE

\* C9: business mode attempts the models in list order, each at most once, and
\* stops at the first success, whose model is reported as model_used
C9_ModelsInOrderUntilSuccess ==
    BusinessCall
      => /\ Len(attempts) <= Len(BusinessModels)
         /\ \A i \in 1..Len(attempts) :
              /\ attempts[i].model = BusinessModels[i]
              /\ (i < Len(attempts) => Failed(i))
              /\ (~Failed(i) => /\ result.success = TRUE
                                /\ result.model_used = BusinessModels[i]
                                /\ result.response = attempts[i].answer.text)
         /\ ((\A i \in 1..Len(attempts) : Failed(i)) => result.success = FALSE)

\* A and B fail with a capacity signal, C succeeds
C9_Witness ==
    /\ BusinessCall
    /\ Len(attempts) = 3
    /\ CapacityFailure(1)
    /\ CapacityFailure(2)
    /\ attempts[3].answer.ok
    /\ result.success = TRUE
    /\ result.model_used = BusinessModels[3]

AllCapacityError == "All models are at capacity. Please try again later."

\* C10: when every model fails with a capacity signal the call returns the
\* "all models at capacity" failure; that result is produced only after every
\* model of the list was attempted, and no capacity failure is returned
C10_AllAtCapacityIsTerminal ==
    BusinessCall
      => /\ ~IsRaised(result)
         /\ ((\A i \in 1..Len(attempts) : CapacityFailure(i))
               => /\ Len(attempts) = Len(BusinessModels)
                  /\ result.success = FALSE
                  /\ result.error = AllCapacityError)
         /\ (result.success = FALSE /\ result.error = AllCapacityError
               => /\ {attempts[i].model : i \in 1..Len(attempts)}
                       = {BusinessModels[i] : i \in 1..Len(BusinessModels)}
                  /\ \A i \in 1..Len(attempts) : CapacityFailure(i))
         /\ (result.success = FALSE
               => \A i \in 1..Len(attempts) :
                    CapacityFailure(i) => result.error # attempts[i].answer.text)

C10_Witness ==
    /\ BusinessCall
    /\ Len(attempts) = 3
    /\ \A i \in 1..3 : CapacityFailure(i)
    /\ result.error = AllCapacityError

\* the last request was a data_query whose query returned a failure
QueryFailedRequest ==
    /\ user_input \in DOMAIN QueryParams
    /\ query_result # NoResult
    /\ ~IsRaised(query_result)
    /\ ~Succeeded(query_result)

\* some message sent to the model carries the text
SentContains(text) == \E i \in 1..Len(sent) : Contains(sent[i].content, text)

\* the request returned what the model call of the Bridge returned
ReturnsBridgeResponse ==
    /\ Len(attempts) >= 1
    /\ result.success = attempts[Len(attempts)].answer.ok
    /\ (result.success => result.response = attempts[Len(attempts)].answer.text)

\* C11: with data loaded, a data_query whose query fails goes to the casual
\* path of the Bridge with the raw user text, the "Query failed: ..." context
\* is among the messages sent to the model, and the Bridge's response is
\* what the request returns
C11_QueryFailureGoesToCasualPath ==
    QueryFailedRequest
      => /\ calls = <<"data_agent.query_data", "conversational_agent.chat",
                      "_casual_chat">>
         /\ sent[Len(sent)] = Msg("user", user_input)
         /\ SentContains("Query failed: " \o query_result.error)
         /\ ReturnsBridgeResponse

\* C12: with data loaded, an analytics request whose full analysis fails
\* returns success = false with the response "Analysis failed: " followed by
\* the runner's error message, and makes no call of the conversational agent:
\* no model is called and the conversation history is unchanged
C12_AnalysisFailureReportedDirectly ==
    [][ \A text \in RequestTexts, env_ok \in BOOLEAN :
          /\ data_loaded
          /\ HandleAnalytics(text, env_ok)
          /\ ~Succeeded(full_analysis(df, env_ok))
          => /\ result' = [success |-> FALSE,
                           response |-> "Analysis failed: "
                                          \o full_analysis(df, env_ok).error]
             /\ calls' = <<"analytics_agent.process">>
             /\ attempts' = <<>>
             /\ sent' = <<>>
             /\ UNCHANGED conversation_history
      ]_vars

\* an analysis has failed after an exchange with the model
C12_Witness ==
    /\ data_loaded
    /\ calls = <<"analytics_agent.process">>
    /\ result = [success |-> FALSE,
                 response |-> "Analysis failed: cannot write to outputs"]
    /\ conversation_history # <<>>

\* the last request was a data_query whose query returned a success
QuerySucceededRequest ==
    /\ user_input \in DOMAIN QueryParams
    /\ Succeeded(query_result)

\* C13: with data loaded, a data_query whose query succeeds returns
\* success = true, the raw query result as data, a non-empty response that is
\* the text of the explain call, and workflow = [data agent, conversational
\* agent]
C13_SuccessfulQueryEnvelope ==
    QuerySucceededRequest
      => /\ result.success = TRUE
         /\ result.data = query_result
         /\ result.workflow = <<"data_agent", "conversational_agent">>
         /\ calls[2] = "conversational_agent.explain_results"
         /\ result.response \notin {None, ""}
         /\ result.response = attempts[Len(attempts)].answer.text

\* C14: no exception of the DataAgent, AnalyticsAgent or ConversationalAgent
\* escapes CoordinatorAgent.process: every request, in every state of the
\* coordinator, returns an envelope with a success field instead of raising
C14_NoExceptionEscapes ==
    result # NoResult => ~IsRaised(result) /\ "success" \in DOMAIN result

\* the words by which a response names the step that failed
StepWords == {"load", "analysis", "query"}

NamesFailedStep(response) == \E w \in StepWords : Contains(Lower(response), w)

\* C15: every envelope returned with success not true has a response that is
\* present, not null and not empty, and that names the failed step (load,
\* analysis or query) rather than being the raw error text alone
C15_FailureNamesStep ==
    Returned /\ ~Succeeded(result)
      => /\ "response" \in DOMAIN result
         /\ result.response \notin {None, ""}
         /\ NamesFailedStep(result.response)

\* the last call of query_data had this query type and returned a success
QueryReturned(query_type) ==
    /\ calls = <<"data_agent.query_data">>
    /\ Len(sent) = 1
    /\ sent[1].query_type = query_type
    /\ Succeeded(query_result)

\* the summed revenue of the rows of year y
YearRevenue(y) ==
    LET keep(r) == r.Year = y
    IN  SumColumn(SelectSeq(df.rows, keep), "Revenue")

Abs(x) == IF x < 0 THEN 0 - x ELSE x

\* g (in hundredths) is (curr - prev) / prev * 100 exactly
IsExactGrowth(g, curr, prev) ==
    g.kind = "num" /\ g.v * prev = (curr - prev) * 10000

\* g (in hundredths) is (curr - prev) / prev * 100 rounded to two decimals
IsRoundedGrowth(g, curr, prev) ==
    g.kind = "num" /\ 2 * Abs(g.v * prev - (curr - prev) * 10000) <= Abs(prev)

\* the rows of the trends are the years present in ascending order, each with
\* its summed revenue, and the first has no growth
TrendsShape(t) ==
    /\ IsAscendingListOf([i \in 1..Len(t) |-> t[i].Year], YearsPresent)
    /\ \A i \in 1..Len(t) : t[i].Revenue = YearRevenue(t[i].Year)
    /\ (Len(t) >= 1 => t[1].Revenue_Growth = NaN)

\* C16 as stated: one row per year present in ascending order, the first
\* growth null, and every later growth exactly (curr - prev) / prev * 100 of
\* the summed revenues of the row and the row before it
C16_GrowthExact ==
    QueryReturned("revenue_trends")
      => /\ TrendsShape(query_result.trends)
         /\ \A i \in 2..Len(query_result.trends) :
              query_result.trends[i - 1].Revenue # 0
                => IsExactGrowth(query_result.trends[i].Revenue_Growth,
                                 query_result.trends[i].Revenue,
                                 query_result.trends[i - 1].Revenue)

\* C16: the revenue-trends query returns one row per year present in ascending
\* order, the first growth is null, and every later growth is
\* (curr - prev) / prev * 100 rounded to two decimals (100 then 150 gives
\* 50.00); after a year of revenue 0 the growth is not a finite number
C16_GrowthRounded ==
    QueryReturned("revenue_trends")
      => /\ TrendsShape(query_result.trends)
         /\ \A i \in 2..Len(query_result.trends) :
              IF query_result.trends[i - 1].Revenue # 0
              THEN IsRoundedGrowth(query_result.trends[i].Revenue_Growth,
                                   query_result.trends[i].Revenue,
                                   query_result.trends[i - 1].Revenue)
              ELSE query_result.trends[i].Revenue_Growth.kind \in {"inf", "nan"}

\* three years, the revenues 100 and 150 in a row giving 50.00, then a growth
\* that two decimals cannot hold
C16_Witness ==
    /\ QueryReturned("revenue_trends")
    /\ Len(query_result.trends) = 3
    /\ query_result.trends[1].Revenue = 100
    /\ query_result.trends[2].Revenue = 150
    /\ query_result.trends[2].Revenue_Growth = Num(5000)
    /\ query_result.trends[3].Revenue = 100
    /\ query_result.trends[3].Revenue_Growth = Num(0 - 3333)

\* the products that have rows in year y
ProductsOfYear(y) ==
    {df.rows[i].Product : i \in {k \in 1..Len(df.rows) : df.rows[k].Year = y}}

\* t is in descending order of revenue, equal revenues by ascending name
RevenueDescendingThenName(t) ==
    \A i, j \in 1..Len(t) :
      i < j => \/ t[i].Revenue > t[j].Revenue
               \/ /\ t[i].Revenue = t[j].Revenue
                  /\ NameIndex(t[i].Product) < NameIndex(t[j].Product)

\* C17: the top-products query with a year and a limit returns at most limit
\* entries, only products that have rows in that year, in descending order of
\* summed revenue, products of equal revenue in ascending order of name
C17_TopProductsOrdered ==
    QueryReturned("top_products") /\ sent[1].year # NoYear
      => /\ Len(query_result.top_products) <= sent[1].limit
         /\ \A i \in 1..Len(query_result.top_products) :
              query_result.top_products[i].Product \in ProductsOfYear(sent[1].year[1])
         /\ RevenueDescendingThenName(query_result.top_products)

\* h is user, assistant, user, assistant, ...
Alternating(h) ==
    /\ Len(h) % 2 = 0
    /\ \A i \in 1..Len(h) :
         h[i].role = (IF i % 2 = 1 THEN "user" ELSE "assistant")

\* C18: a call of the conversational agent whose model exchange succeeds
\* (casual or business) appends exactly two entries to conversation_history,
\* the user turn and then the assistant turn; a call that fails appends
\* nothing; so the history is always an alternating user/assistant sequence
\* of even length
C18_ExchangeAppendsUserThenAssistant ==
    [][ /\ ~ClearHistory
          => IF Succeeded(result')
             THEN conversation_history' =
                    conversation_history
                      \o <<Msg("user", user_input'),
                           Msg("assistant", result'.response)>>
             ELSE UNCHANGED conversation_history
        /\ Alternating(conversation_history')
      ]_vars

\* a casual and a business exchange have succeeded, and a call has failed
C18_Witness ==
    /\ Len(conversation_history) = 4
    /\ conversation_history[1] = Msg("user", "hello")
    /\ conversation_history[3] = Msg("user", ExplainPrompt)
    /\ Len(attempts) >= 1
    /\ ~Succeeded(result)

\* the history entries among the messages sent: all but the system messages
\* at the front and the user message at the end
Replayed(messages) ==
    LET is_turn(m) == m.role # "system"
    IN  SelectSeq(SubSeq(messages, 1, Len(messages) - 1), is_turn)

\* w is the last min(n, Len(h)) entries of h, in the order of h
IsTailWindow(w, h, n) ==
    /\ Len(w) = (IF Len(h) < n THEN Len(h) ELSE n)
    /\ \A k \in 1..Len(w) : w[k] = h[Len(h) - Len(w) + k]

IsPrefix(h, g) == Len(h) <= Len(g) /\ SubSeq(g, 1, Len(h)) = h

\* C19: every model call replays at most the 5 most recent entries of
\* conversation_history, in their order; the call leaves the older entries in
\* the history, which only clear_history empties
C19_OnlyLastFiveReplayed ==
    [][ IF ClearHistory
        THEN conversation_history' = <<>>
        ELSE /\ Len(Replayed(sent')) <= 5
             /\ IsTailWindow(Replayed(sent'), conversation_history, 5)
             /\ IsPrefix(conversation_history, conversation_history')
      ]_vars

\* a call made with six entries in the history replayed the last five
C19_Witness ==
    /\ Len(conversation_history) = 6
    /\ Len(Replayed(sent)) = 5
    /\ Replayed(sent)[1] = conversation_history[2]
    /\ Replayed(sent)[5] = conversation_history[6]

\* the router chose this query type
RoutedTo(query_type) ==
    /\ Routed
    /\ result.intent.type = "data_query"
    /\ result.intent.query_type = query_type

YearWithin(year, low, high) == year = NoYear \/ year[1] \in low..high

\* C20: the year extracted for a profit-margin text is a 4-digit number in
\* 2010..2029, any other 4-digit number (2005, 2035) leaving year = null; for
\* a top-products text the range is 2000..2099
C20_YearRanges ==
    /\ RoutedTo("profit_margin_by_year")
         => YearWithin(result.intent.parameters.year, 2010, 2029)
    /\ RoutedTo("top_products")
         => YearWithin(result.intent.parameters.year, 2000, 2099)

\* a percentage that is missing (NaN), neither a number nor infinite
IsMissing(p) == p.kind = "nan"

\* C21: a profit margin computed from rows whose summed revenue is 0 is
\* missing, never the number 0, in the profit-margin result and in every row
\* of the revenue trends
C21_ZeroRevenueMarginMissing ==
    /\ QueryReturned("profit_margin_by_year") /\ query_result.revenue = 0
         => IsMissing(query_result.profit_margin)
    /\ QueryReturned("revenue_trends")
         => \A i \in 1..Len(query_result.trends) :
              query_result.trends[i].Revenue = 0
                => IsMissing(query_result.trends[i].Profit_Margin)

\* C22: in the revenue trends the growth of a year is null when there is no
\* previous year or the previous year's summed revenue is 0; it is never an
\* infinite value and the query never fails with a division by zero
C22_GrowthNullAfterZeroRevenue ==
    calls = <<"data_agent.query_data">> /\ sent[1].query_type = "revenue_trends"
      => /\ Succeeded(query_result)
         /\ \A i \in 1..Len(query_result.trends) :
              /\ query_result.trends[i].Revenue_Growth.kind # "inf"
              /\ (i = 1 \/ query_result.trends[i - 1].Revenue = 0
                    => IsMissing(query_result.trends[i].Revenue_Growth))

\* d is a cleaned and feature-engineered dataset
FullyPrepared(d) ==
    /\ d.loaded
    /\ EngineeredColumns \subseteq d.columns
    /\ DropDuplicates(d.rows) = d.rows

\* C23: a load_and_prepare call that succeeds leaves the fully cleaned and
\* feature-engineered new dataset in df, and one that fails leaves df as it
\* was before the call: no raw or partially prepared dataset stays visible
C23_FailedLoadKeepsDataset ==
    [][ InitializationRequest
          => IF Succeeded(result'.data_info)
             THEN FullyPrepared(df')
             ELSE df' = df
      ]_vars

\* C24: after any sequence of loads every derived dataset of processed_data
\* (sales, customer, profit) is computed from the rows of the current df
C24_DerivedDatasetsFollowDf ==
    \A k \in DOMAIN processed_data : processed_data[k] = df.rows

\* C25: while data_loaded is false only an initialization request can return
\* success = true: a data_query, analytics or conversation request returns
\* success not true
C25_NoDataOnlyInitializationSucceeds ==
    Returned /\ ~data_loaded /\ IntentOf[user_input].type # "initialization"
      => ~Succeeded(result)

\* the eleven keywords of the business mode
ElevenKeywords ==
    {"sales", "revenue", "profit", "margin", "income", "customer",
     "marketing", "lead", "conversion", "growth", "forecast"}

\* keyword k occurs in text as a whole word, in any case
OccursAsWord(text, k) ==
    \E i \in 1..(Len(text) - Len(k) + 1) :
      /\ Lower(SubSeq(text, i, i + Len(k) - 1)) = k
      /\ (i = 1 \/ ~IsWordChar(CharAt(text, i - 1)))
      /\ (i + Len(k) - 1 = Len(text) \/ ~IsWordChar(CharAt(text, i + Len(k))))

\* the last request was a call of chat
ChatCall == Len(calls) = 2 /\ calls[1] = "conversational_agent.chat"

\* C26: chat takes the business path exactly when one of the eleven keywords
\* is a whole word of the lowercased message, and the casual path otherwise;
\* a keyword inside a longer word (customers, profitable) does not count
C26_BusinessIffKeywordIsWord ==
    /\ sales_keywords = ElevenKeywords
    /\ Cardinality(sales_keywords) = 11
    /\ ChatCall
         => IF \E k \in ElevenKeywords : OccursAsWord(user_input, k)
            THEN calls[2] = "_business_chat"
            ELSE calls[2] = "_casual_chat"

\* keywords only inside longer words: the casual path
C26_Witness ==
    /\ ChatCall
    /\ user_input = "customers profitable"
    /\ calls[2] = "_casual_chat"

\* the last request ran _casual_chat
CasualCall == Len(calls) = 2 /\ calls[2] = "_casual_chat"

\* C27: a casual call makes exactly one attempt, with the one fixed model;
\* when the attempt fails, also with a "429" or "capacity" message, the
\* failure is what the call returns and no other model is tried
C27_CasualSingleAttempt ==
    CasualCall
      => /\ Len(attempts) = 1
         /\ attempts[1].model = "mistral-small-latest"
         /\ IF Failed(1)
            THEN result = [success |-> FALSE, error |-> attempts[1].answer.text]
            ELSE /\ result.success = TRUE
                 /\ result.response = attempts[1].answer.text

\* the one attempt failed with a capacity signal and the call returned it
C27_Witness ==
    /\ CasualCall
    /\ Len(attempts) = 1
    /\ CapacityFailure(1)
    /\ result = [success |-> FALSE, error |-> "API error occurred: Status 429"]

\* some attempt of the call that just returned had failed
SomeAttemptFailed == \E i \in 1..Len(attempts') : ~attempts'[i].answer.ok

\* C28: a call whose model exchange fails leaves conversation_history as it
\* was, whether the failure ends the call or every model was at capacity, and
\* a call that succeeds after skipped capacity failures appends one
\* user/assistant pair in all, nothing for the attempts that failed
C28_FailedAttemptsAppendNothing ==
    [][ ~ClearHistory
          => /\ ~Succeeded(result') => UNCHANGED conversation_history
             /\ Succeeded(result') /\ SomeAttemptFailed
                  => /\ Len(conversation_history') = Len(conversation_history) + 2
                     /\ IsPrefix(conversation_history, conversation_history')
                     /\ conversation_history'[Len(conversation_history')]
                          = Msg("assistant", result'.response)
      ]_vars

\* the third model answered after two capacity failures: one pair in the history
C28_Witness ==
    /\ BusinessCall
    /\ Len(attempts) = 3
    /\ CapacityFailure(1)
    /\ CapacityFailure(2)
    /\ Succeeded(result)
    /\ Len(conversation_history) = 2

\* the last request ran the query or the analysis (data was loaded) and returned
StepRan ==
    /\ Returned
    /\ Len(calls) >= 1
    /\ calls[1] \in {"data_agent.query_data", "analytics_agent.process"}

\* the DataAgent query or the full analysis of the last request succeeded
StepSucceeded ==
    IF calls[1] = "data_agent.query_data" THEN Succeeded(query_result)
    ELSE Len(calls) = 3

\* the model call of the last request failed
BridgeFailed == Len(attempts) >= 1 /\ ~attempts[Len(attempts)].answer.ok

\* success = true, and after a failed Bridge call a null response and no error
SucceedsWithoutBridge ==
    /\ result.success = TRUE
    /\ BridgeFailed => result.response = None /\ "error" \notin DOMAIN result

\* C29 as stated: for data_query and analytics requests with data loaded the
\* success flag is that of the query / analysis step alone; after a
\* successful step it is true even if the Bridge call fails, the response
\* then being null and the Bridge's error left out
C29_SuccessFollowsStepOnly ==
    StepRan
      => /\ result.success = StepSucceeded
         /\ StepSucceeded => SucceedsWithoutBridge

\* C29: when the query / analysis step succeeds the envelope has success =
\* true even if the Bridge call fails, the response then being null and the
\* Bridge's error left out; a failed analysis gives success = false; after a
\* failed query the envelope is the result of the Bridge's chat, so its
\* success flag is that of the model call
C29_SuccessWhenStepSucceeds ==
    StepRan
      => IF StepSucceeded THEN SucceedsWithoutBridge
         ELSE IF calls[1] = "analytics_agent.process" THEN result.success = FALSE
         ELSE result.success = ~BridgeFailed

\* a query succeeded, every model failed, and the envelope says success
C29_Witness ==
    /\ StepRan
    /\ calls[1] = "data_agent.query_data"
    /\ StepSucceeded
    /\ BridgeFailed
    /\ result.success = TRUE
    /\ result.response = None

\* the last request reached ConversationalAgent.chat
ChatReached ==
    \E i \in 1..Len(calls) : calls[i] = "conversational_agent.chat"

\* the context the coordinator handed to chat in the last request
ContextGiven ==
    IF calls[1] = "data_agent.query_data"
    THEN "Query failed: " \o (IF "error" \in DOMAIN query_result
                              THEN query_result.error ELSE "Unknown error")
    ELSE IF data_loaded
    THEN "Available data: " \o ToString(get_data_summary(df).years_available)
         \o " | Total revenue: $" \o ToString(get_data_summary(df).total_revenue)
    ELSE ""

\* some message sent to the model carries a context
ContextSent ==
    \E i \in 1..Len(sent) :
       /\ Len(sent[i].content) >= Len("Context: ")
       /\ SubSeq(sent[i].content, 1, Len("Context: ")) = "Context: "

\* C30: the context given to chat reaches the model only when the message is
\* classified as business, as a system message right after the system
\* prompt; for a casual message it is sent in no message at all
C30_ContextOnlyForBusiness ==
    ChatReached
      => IF SalesRelated[user_input]
         THEN IF ContextGiven # ""
              THEN sent[2] = Msg("system", "Context: " \o ContextGiven)
              ELSE ~ContextSent
         ELSE /\ ~ContextSent
              /\ ContextGiven # "" => ~SentContains(ContextGiven)

\* with data loaded, a casual message was given the data summary as context
\* and the model was sent none of it
C30_Witness ==
    /\ data_loaded
    /\ calls = <<"data_agent.get_data_summary", "conversational_agent.chat",
                 "_casual_chat">>
    /\ ~SalesRelated[user_input]
    /\ ContextGiven # ""
    /\ Len(sent) >= 2
    /\ ~ContextSent

====
